---- MODULE Spec2Model ----
(***************************************************************************)
(* A model of clean_svg.py, the SVG cleaner of papirus-icons.              *)
(*                                                                         *)
(* Strings are TLA+ strings, taken apart with Len and SubSeq, so that the  *)
(* regular expressions, the style mini-language and the number formatting  *)
(* are computed character by character as the Python code computes them.   *)
(* A document is a sequence of element nodes in document order; a node is  *)
(* [tag, attrib, parent], tag and attribute names in lxml's Clark notation *)
(* ("{namespace}local"), attrib an ordered sequence of <<name, value>>,     *)
(* parent the index of the parent node (0 for the root, node 1, and for a  *)
(* node that was removed from its parent).  Comments, processing           *)
(* instructions, text and namespace declarations are not modelled.         *)
(***************************************************************************)
EXTENDS Integers, Sequences, FiniteSets, TLC

VARIABLES pc, run, tree0, scanned, tree, used, aggressive, precision, text, out

vars == <<pc, run, tree0, scanned, tree, used, aggressive, precision, text, out>>

(***************************************************************************)
(* Bounds of the model.                                                    *)
(***************************************************************************)
MaxNodes == 4
MaxPrecision == 2
MaxFracDigits == 3
MaxProps == 2

(***************************************************************************)
(* Program constants.                                                      *)
(***************************************************************************)
SVG_NS == "http://www.w3.org/2000/svg"
XLINK_NS == "http://www.w3.org/1999/xlink"
XML_NS == "http://www.w3.org/XML/1998/namespace"
INKSCAPE_NS == "http://www.inkscape.org/namespaces/inkscape"
SODIPODI_NS == "http://sodipodi.sourceforge.net/DTD/sodipodi-0.dtd"

DefaultPrecision == 2

EDITOR_PROP_PREFIXES == <<"-inkscape-">>
STRIP_ATTR_PREFIXES == <<"{" \o INKSCAPE_NS \o "}", "{" \o SODIPODI_NS \o "}">>
STRIP_ATTR_QNAMES == <<"xml:space">>

CSS_DEFAULTS ==
    << <<"opacity", "1">>, <<"fill-opacity", "1">>, <<"stroke-opacity", "1">>,
       <<"stroke-dasharray", "none">>, <<"stroke-linecap", "butt">>,
       <<"stroke-linejoin", "miter">>, <<"stroke-miterlimit", "4">> >>

FONT_KEYS ==
    <<"font", "font-family", "font-weight", "font-size", "font-style",
      "font-variant", "line-height", "letter-spacing", "word-spacing",
      "text-anchor", "text-decoration">>

NUMERIC_ATTRS ==
    {"x", "y", "x1", "y1", "x2", "y2", "dx", "dy", "rotate",
     "width", "height", "r", "rx", "ry", "cx", "cy",
     "opacity", "fill-opacity", "stroke-opacity", "stroke-width",
     "stroke-miterlimit", "pathLength", "offset", "startOffset",
     "stdDeviation", "points", "viewBox", "transform"}

NUMERIC_STYLE_KEYS ==
    {"opacity", "fill-opacity", "stroke-opacity", "stroke-width",
     "stroke-miterlimit", "stroke-dashoffset"}

STYLE_ORDER ==
    <<"filter", "opacity", "fill", "fill-opacity", "stroke", "stroke-opacity",
      "stroke-width", "stroke-linecap", "stroke-linejoin", "stroke-miterlimit",
      "stroke-dasharray", "stroke-dashoffset">>

(***************************************************************************)
(* Strings.                                                                *)
(***************************************************************************)
Range(s) == {s[i] : i \in 1..Len(s)}

CharAt(s, i) == SubSeq(s, i, i)

From(s, i) == SubSeq(s, i, Len(s))

StartsWith(s, p) == Len(s) >= Len(p) /\ SubSeq(s, 1, Len(p)) = p

\* str.find(c, i): the first index >= i holding the character c, 0 if none
RECURSIVE Find(_, _, _)
Find(s, c, i) ==
    IF i > Len(s) THEN 0
    ELSE IF CharAt(s, i) = c THEN i
    ELSE Find(s, c, i + 1)

Contains(s, c) == Find(s, c, 1) # 0

Whitespace == {" ", "\t", "\n", "\r"}

RECURSIVE LStrip(_)
LStrip(s) ==
    IF Len(s) > 0 /\ CharAt(s, 1) \in Whitespace THEN LStrip(From(s, 2)) ELSE s

RECURSIVE RStrip(_)
RStrip(s) ==
    IF Len(s) > 0 /\ CharAt(s, Len(s)) \in Whitespace
    THEN RStrip(SubSeq(s, 1, Len(s) - 1))
    ELSE s

\* str.strip()
Strip(s) == RStrip(LStrip(s))

\* str.lower(), of the ASCII letters
RECURSIVE Lower(_)
Lower(s) ==
    IF Len(s) = 0 THEN ""
    ELSE LET i == Find("ABCDEFGHIJKLMNOPQRSTUVWXYZ", CharAt(s, 1), 1)
         IN  (IF i = 0 THEN CharAt(s, 1) ELSE CharAt("abcdefghijklmnopqrstuvwxyz", i))
             \o Lower(From(s, 2))

\* str.split(c): the pieces between the occurrences of the character c
RECURSIVE Split(_, _)
Split(s, c) ==
    LET i == Find(s, c, 1)
    IN  IF i = 0 THEN <<s>>
        ELSE <<SubSeq(s, 1, i - 1)>> \o Split(From(s, i + 1), c)

\* sep.join(parts)
RECURSIVE Join(_, _)
Join(parts, sep) ==
    IF Len(parts) = 0 THEN ""
    ELSE IF Len(parts) = 1 THEN parts[1]
    ELSE parts[1] \o sep \o Join(Tail(parts), sep)

Digits == {"0", "1", "2", "3", "4", "5", "6", "7", "8", "9"}

Letters ==
    {"a", "b", "c", "d", "e", "f", "g", "h", "i", "j", "k", "l", "m",
     "n", "o", "p", "q", "r", "s", "t", "u", "v", "w", "x", "y", "z",
     "A", "B", "C", "D", "E", "F", "G", "H", "I", "J", "K", "L", "M",
     "N", "O", "P", "Q", "R", "S", "T", "U", "V", "W", "X", "Y", "Z"}

DigitVal(c) ==
    CASE c = "0" -> 0 [] c = "1" -> 1 [] c = "2" -> 2 [] c = "3" -> 3
      [] c = "4" -> 4 [] c = "5" -> 5 [] c = "6" -> 6 [] c = "7" -> 7
      [] c = "8" -> 8 [] c = "9" -> 9

DigitChar(d) == CharAt("0123456789", d + 1)

\* the end of the run of digits starting at i (i - 1 when there is none)
RECURSIVE DigitsEnd(_, _)
DigitsEnd(s, i) ==
    IF i <= Len(s) /\ CharAt(s, i) \in Digits THEN DigitsEnd(s, i + 1) ELSE i - 1

RECURSIVE Pow(_, _)
Pow(b, e) == IF e = 0 THEN 1 ELSE b * Pow(b, e - 1)

\* int(s) of a string of digits ("" is 0)
RECURSIVE ToNat(_)
ToNat(s) ==
    IF Len(s) = 0 THEN 0
    ELSE 10 * ToNat(SubSeq(s, 1, Len(s) - 1)) + DigitVal(CharAt(s, Len(s)))

\* str(n) of a natural number
RECURSIVE NatStr(_)
NatStr(n) == IF n < 10 THEN DigitChar(n) ELSE NatStr(n \div 10) \o DigitChar(n % 10)

\* n written with at least w digits, zero-padded on the left
RECURSIVE Padded(_, _)
Padded(n, w) ==
    IF w <= 1 THEN NatStr(n) ELSE
    IF Len(NatStr(n)) >= w THEN NatStr(n) ELSE "0" \o Padded(n, w - 1)

(***************************************************************************)
(* Numeric rounding.  Every call site passes force_fixed=True, so only the *)
(* fixed format "{:.<precision>f}" is modelled.                            *)
(***************************************************************************)

\* NUM_TOKEN_RE.match at position i: the index of the last character of the
\* match, 0 when there is none.
\*   [-+]?(?:\d*\.\d+|\d+\.|\d+)(?:[eE][-+]?\d+)?
NumTokenEnd(s, i) ==
    LET j == IF i <= Len(s) /\ CharAt(s, i) \in {"-", "+"} THEN i + 1 ELSE i
        d == DigitsEnd(s, j)
        body ==
            IF d + 2 <= Len(s) /\ CharAt(s, d + 1) = "." /\ CharAt(s, d + 2) \in Digits
            THEN DigitsEnd(s, d + 2)
            ELSE IF d >= j /\ d + 1 <= Len(s) /\ CharAt(s, d + 1) = "."
            THEN d + 1
            ELSE IF d >= j THEN d
            ELSE 0
        x == IF body + 2 <= Len(s) /\ CharAt(s, body + 2) \in {"-", "+"}
             THEN body + 3 ELSE body + 2
    IN  IF body = 0 THEN 0
        ELSE IF body + 1 <= Len(s) /\ CharAt(s, body + 1) \in {"e", "E"}
                /\ DigitsEnd(s, x) >= x
        THEN DigitsEnd(s, x)
        ELSE body

\* float(tok), kept exact: the value is (-1)^neg * n / 10^scale
ParseFloat(tok) ==
    LET neg == StartsWith(tok, "-")
        b == IF Len(tok) > 0 /\ CharAt(tok, 1) \in {"-", "+"} THEN From(tok, 2) ELSE tok
        e == IF Contains(b, "e") THEN Find(b, "e", 1) ELSE Find(b, "E", 1)
        mant == IF e = 0 THEN b ELSE SubSeq(b, 1, e - 1)
        ex == IF e = 0 THEN "" ELSE From(b, e + 1)
        exneg == StartsWith(ex, "-")
        exdig == IF Len(ex) > 0 /\ CharAt(ex, 1) \in {"-", "+"} THEN From(ex, 2) ELSE ex
        exval == IF exneg THEN 0 - ToNat(exdig) ELSE ToNat(exdig)
        dot == Find(mant, ".", 1)
        ip == IF dot = 0 THEN mant ELSE SubSeq(mant, 1, dot - 1)
        fp == IF dot = 0 THEN "" ELSE From(mant, dot + 1)
    IN  [neg |-> neg, n |-> ToNat(ip \o fp), scale |-> Len(fp) - exval]

\* floor(log2(n / m)) for n, m > 0
RECURSIVE Log2Floor(_, _)
Log2Floor(n, m) ==
    IF n >= 2 * m THEN 1 + Log2Floor(n, 2 * m)
    ELSE IF n < m THEN Log2Floor(2 * n, m) - 1
    ELSE 0

RECURSIVE TwoPowMod(_, _)
TwoPowMod(k, m) == IF k = 0 THEN 1 % m ELSE (2 * TwoPowMod(k - 1, m)) % m

\* Whether the IEEE double nearest to n / 10^f (f >= 1, n > 0) is that number,
\* and otherwise whether it lies above it.  The double is m / 2^k with
\* 2^52 <= m < 2^53 and m the integer nearest to n * 2^k / 10^f; the remainder
\* of n * 2^k modulo 10^f tells on which side m lies (it is never exactly a
\* half, 2^k being a multiple of 2^f).
DoubleIsExact(n, f) == n % Pow(5, f) = 0

DoubleIsAbove(n, f) ==
    LET m == Pow(10, f)
        k == 52 - Log2Floor(n, m)
        r == ((n % m) * TwoPowMod(k, m)) % m
    IN  2 * r > m

\* "{:.<p>f}".format(v): v correctly rounded to p decimals, ties of the exact
\* binary value to even; the sign is printed even when the digits are all 0.
FormatFixed(v, p) ==
    LET f == v.scale
        d == Pow(10, f - p)
        q == v.n \div d
        r == v.n % d
        up == IF 2 * r # d THEN 2 * r > d
              ELSE IF DoubleIsExact(v.n, f) THEN q % 2 = 1
              ELSE DoubleIsAbove(v.n, f)
        s == IF f <= p THEN v.n * Pow(10, p - f)
             ELSE IF up THEN q + 1 ELSE q
        ip == s \div Pow(10, p)
        fp == s % Pow(10, p)
    IN  (IF v.neg THEN "-" ELSE "")
        \o NatStr(ip)
        \o (IF p > 0 THEN "." \o Padded(fp, p) ELSE "")

is_floatlike(tok) == Contains(tok, ".") \/ Contains(tok, "e") \/ Contains(tok, "E")

round_token(tok, p) ==
    IF ~is_floatlike(tok) THEN tok
    ELSE LET o == FormatFixed(ParseFloat(tok), p)
         IN  IF StartsWith(o, "-0.") THEN From(o, 2) ELSE o

\* NUM_TOKEN_RE.sub(...): leftmost matches, left to right, not overlapping
RECURSIVE round_numbers_in_string(_, _)
round_numbers_in_string(s, p) ==
    IF Len(s) = 0 THEN ""
    ELSE LET e == NumTokenEnd(s, 1)
         IN  IF e = 0
             THEN CharAt(s, 1) \o round_numbers_in_string(From(s, 2), p)
             ELSE round_token(SubSeq(s, 1, e), p)
                  \o round_numbers_in_string(From(s, e + 1), p)

round_style_value(prop, val, p) ==
    IF prop = "stroke-dasharray"
    THEN IF Lower(Strip(val)) = "none" THEN val
         ELSE round_numbers_in_string(val, p)
    ELSE IF prop \in NUMERIC_STYLE_KEYS THEN round_numbers_in_string(val, p)
    ELSE val

(***************************************************************************)
(* Ordered mappings (a Python dict, an lxml attrib): sequences of          *)
(* <<key, value>> with distinct keys, in insertion order.                  *)
(***************************************************************************)
Keys(d) == {d[i][1] : i \in 1..Len(d)}

Has(d, k) == k \in Keys(d)

\* d.get(k) of a key that is there (Has(d, k) tells d.get(k) is not None)
Get(d, k) == d[CHOOSE i \in 1..Len(d) : d[i][1] = k][2]

\* d[k] = v: in place when the key is there, else at the end
Put(d, k, v) ==
    IF Has(d, k)
    THEN [i \in 1..Len(d) |-> IF d[i][1] = k THEN <<k, v>> ELSE d[i]]
    ELSE Append(d, <<k, v>>)

\* d.pop(k, None)
Pop(d, k) == SelectSeq(d, LAMBDA e : e[1] # k)

\* "if d.get(k):" the key is there and its value is not the empty string
Truthy(d, k) == Has(d, k) /\ Get(d, k) # ""

(***************************************************************************)
(* Helpers and the style record codec.                                     *)
(***************************************************************************)
localname(tag) ==
    LET i == Find(tag, "}", 1)
    IN  IF i # 0 THEN From(tag, i + 1) ELSE tag

is_textish(elem) == localname(elem.tag) \in {"text", "tspan", "textPath"}

RECURSIVE ParseChunks(_, _)
ParseChunks(chunks, acc) ==
    IF Len(chunks) = 0 THEN acc
    ELSE LET chunk == Head(chunks)
             c == Find(chunk, ":", 1)
         IN  IF Strip(chunk) = "" \/ c = 0
             THEN ParseChunks(Tail(chunks), acc)
             ELSE ParseChunks(Tail(chunks),
                              Put(acc, Strip(SubSeq(chunk, 1, c - 1)),
                                  Strip(From(chunk, c + 1))))

parse_style(style_str) == ParseChunks(Split(style_str, ";"), <<>>)

serialize_style(d) ==
    LET inOrder == SelectSeq(STYLE_ORDER, LAMBDA k : Has(d, k))
        others == SelectSeq(d, LAMBDA e : e[1] \notin Range(STYLE_ORDER))
        keys == inOrder \o [i \in 1..Len(others) |-> others[i][1]]
    IN  Join([i \in 1..Len(keys) |-> keys[i] \o ":" \o Get(d, keys[i])], ";")

(***************************************************************************)
(* Style cleaning.                                                         *)
(***************************************************************************)
\* Remove editor/vendor props
drop_editor_props(d) ==
    SelectSeq(d, LAMBDA e :
        \A i \in 1..Len(EDITOR_PROP_PREFIXES) : ~StartsWith(e[1], EDITOR_PROP_PREFIXES[i]))

\* Remove font props from non-text elements
drop_font_props(d, elem) ==
    IF is_textish(elem) THEN d
    ELSE SelectSeq(d, LAMBDA e : e[1] \notin Range(FONT_KEYS))

\* suppress_stroke with the test for "transparent" forgotten
suppress_stroke_none_only(d, aggr) ==
    LET d1 == SelectSeq(d, LAMBDA e : ~StartsWith(e[1], "stroke-"))
    IN  IF (~Has(d, "stroke") /\ aggr)
           \/ (Truthy(d, "stroke") /\ Strip(Get(d, "stroke")) = "none")
        THEN IF aggr /\ Truthy(d, "stroke") /\ Strip(Get(d, "stroke")) = "none"
             THEN Pop(d1, "stroke")
             ELSE d1
        ELSE d

\* If stroke is none/transparent (or aggressive and undefined), drop stroke-* details
suppress_stroke(d, aggr) ==
    LET d1 == SelectSeq(d, LAMBDA e : ~StartsWith(e[1], "stroke-"))
    IN  IF (~Has(d, "stroke") /\ aggr)
           \/ (Truthy(d, "stroke") /\ Strip(Get(d, "stroke")) \in {"none", "transparent"})
        THEN IF aggr /\ Truthy(d, "stroke") /\ Strip(Get(d, "stroke")) = "none"
             THEN Pop(d1, "stroke")
             ELSE d1
        ELSE d

\* Remove safe defaults
drop_defaults(d) ==
    SelectSeq(d, LAMBDA e :
        \A i \in 1..Len(CSS_DEFAULTS) :
            ~(e[1] = CSS_DEFAULTS[i][1] /\ e[2] = CSS_DEFAULTS[i][2]))

\* Round numeric style values (skip 'filter' which may be url(#...))
round_style(d, p) ==
    [i \in 1..Len(d) |->
        IF d[i][1] = "filter" THEN d[i]
        ELSE <<d[i][1], round_style_value(d[i][1], d[i][2], p)>>]

clean_style(elem, aggr, p) ==
    LET style == Get(elem.attrib, "style")
        d == round_style(
                 drop_defaults(
                     suppress_stroke(
                         drop_font_props(drop_editor_props(parse_style(style)), elem),
                         aggr)),
                 p)
    IN  IF ~Truthy(elem.attrib, "style") THEN elem
        ELSE IF Len(d) > 0
        THEN [elem EXCEPT !.attrib = Put(@, "style", serialize_style(d))]
        ELSE [elem EXCEPT !.attrib = Pop(@, "style")]

(***************************************************************************)
(* Reference liveness.                                                     *)
(***************************************************************************)
\* URL_REF_RE.finditer(val) from position i:  url\(#([^)]+)\)
RECURSIVE UrlRefs(_, _)
UrlRefs(val, i) ==
    IF i + 4 > Len(val) THEN {}
    ELSE LET close == Find(val, ")", i + 5)
         IN  IF SubSeq(val, i, i + 4) = "url(#" /\ close > i + 5
             THEN {SubSeq(val, i + 5, close - 1)} \cup UrlRefs(val, close + 1)
             ELSE UrlRefs(val, i + 1)

\* HASH_REF_RE.match(val.strip()):  ^#([A-Za-z_][\w.-]*)$
HashRefs(val) ==
    LET v == Strip(val)
    IN  IF /\ Len(v) >= 2
           /\ CharAt(v, 1) = "#"
           /\ CharAt(v, 2) \in Letters \cup {"_"}
           /\ \A i \in 3..Len(v) : CharAt(v, i) \in Letters \cup Digits \cup {"_", ".", "-"}
        THEN {From(v, 2)}
        ELSE {}

collect_url_refs_from_value(val) == UrlRefs(val, 1) \cup HashRefs(val)

(***************************************************************************)
(* The tree.                                                               *)
(***************************************************************************)
Nodes(t) == 1..Len(t)

Children(t, n) == {c \in Nodes(t) : t[c].parent = n}

\* whether node n is the root or hangs, through its ancestors, from the root
RECURSIVE Attached(_, _)
Attached(t, n) ==
    IF n = 1 THEN TRUE
    ELSE IF t[n].parent = 0 THEN FALSE
    ELSE Attached(t, t[n].parent)

\* root.iter(): the elements of the tree
Iter(t) == {n \in Nodes(t) : Attached(t, n)}

\* parent.remove(child)
Remove(t, ns) == [n \in Nodes(t) |-> IF n \in ns THEN [t[n] EXCEPT !.parent = 0] ELSE t[n]]

\* the ids an element refers to, in its attribute values and its style values
ElementRefs(elem) ==
    UNION {collect_url_refs_from_value(elem.attrib[i][2]) : i \in 1..Len(elem.attrib)}
    \cup (IF Truthy(elem.attrib, "style")
          THEN LET d == parse_style(Get(elem.attrib, "style"))
               IN  UNION {collect_url_refs_from_value(d[i][2]) : i \in 1..Len(d)}
          ELSE {})

collect_used_ids(t) == UNION {ElementRefs(t[n]) : n \in Iter(t)}

(***************************************************************************)
(* Cleaning passes.                                                        *)
(***************************************************************************)
normalize_root(t) ==
    LET tag == t[1].tag
        ns == SubSeq(tag, 2, Find(tag, "}", 1) - 1)
    IN  IF localname(tag) = "svg" /\ (~StartsWith(tag, "{") \/ ns # SVG_NS)
        THEN [t EXCEPT ![1].tag = "{" \o SVG_NS \o "}svg"]
        ELSE t

remove_metadata_and_comments(t) ==
    Remove(t, {c \in Children(t, 1) : localname(t[c].tag) = "metadata"})

\* root.findall(".//{SVG_NS}defs"): the descendants of the root, in document order
FindDefs(t) ==
    LET found == {n \in Iter(t) \ {1} : t[n].tag = "{" \o SVG_NS \o "}defs"}
        sorted[k \in 0..Len(t)] ==
            IF k = 0 THEN <<>>
            ELSE IF k \in found THEN Append(sorted[k - 1], k) ELSE sorted[k - 1]
    IN  sorted[Len(t)]

\* PruneDefs removing the defs only when it removed one of its children
PruneDefsIfChanged(t, defs, used_ids) ==
    LET dropped == {c \in Children(t, defs) :
                       ~Truthy(t[c].attrib, "id") \/ Get(t[c].attrib, "id") \notin used_ids}
        t1 == Remove(t, dropped)
    IN  IF dropped # {} /\ Children(t1, defs) = {} /\ t1[defs].parent # 0
        THEN Remove(t1, {defs})
        ELSE t1

\* the body of the loop over the defs elements, for one of them
PruneDefs(t, defs, used_ids) ==
    LET dropped == {c \in Children(t, defs) :
                       ~Truthy(t[c].attrib, "id") \/ Get(t[c].attrib, "id") \notin used_ids}
        t1 == Remove(t, dropped)
    IN  IF Children(t1, defs) = {} /\ t1[defs].parent # 0
        THEN Remove(t1, {defs})
        ELSE t1

RECURSIVE PruneAll(_, _, _)
PruneAll(t, list, used_ids) ==
    IF Len(list) = 0 THEN t
    ELSE PruneAll(PruneDefs(t, Head(list), used_ids), Tail(list), used_ids)

prune_unused_defs(t, used_ids) == PruneAll(t, FindDefs(t), used_ids)

strip_editor_attrs(elem) ==
    [elem EXCEPT !.attrib = SelectSeq(@, LAMBDA a :
        /\ a[1] \notin Range(STRIP_ATTR_QNAMES)
        /\ \A i \in 1..Len(STRIP_ATTR_PREFIXES) : ~StartsWith(a[1], STRIP_ATTR_PREFIXES[i])
        /\ ~StartsWith(localname(a[1]), "data-"))]

\* points, transform, viewBox and the generic branch all round the numeric
\* tokens; 'filter' is not in NUMERIC_ATTRS, so its branch is never taken
round_numeric_attributes(elem, p) ==
    [elem EXCEPT !.attrib = [i \in 1..Len(@) |->
        IF localname(@[i][1]) = "d" \/ localname(@[i][1]) \in NUMERIC_ATTRS
        THEN <<@[i][1], round_numbers_in_string(@[i][2], p)>>
        ELSE @[i]]]

\* the loop over root.iter() of clean_svg_tree
clean_elements(t, aggr, p) ==
    [n \in Nodes(t) |->
        IF Attached(t, n)
        THEN round_numeric_attributes(clean_style(strip_editor_attrs(t[n]), aggr, p), p)
        ELSE t[n]]

\* strip_unused_ids exempting the root instead of the elements named svg
strip_unused_ids_but_root(t, used_ids) ==
    [n \in Nodes(t) |->
        IF /\ Attached(t, n)
           /\ Truthy(t[n].attrib, "id")
           /\ Get(t[n].attrib, "id") \notin used_ids
           /\ n # 1
        THEN [t[n] EXCEPT !.attrib = Pop(@, "id")]
        ELSE t[n]]

strip_unused_ids(t, used_ids) ==
    [n \in Nodes(t) |->
        IF /\ Attached(t, n)
           /\ Truthy(t[n].attrib, "id")
           /\ Get(t[n].attrib, "id") \notin used_ids
           /\ localname(t[n].tag) # "svg"
        THEN [t[n] EXCEPT !.attrib = Pop(@, "id")]
        ELSE t[n]]

\* the passes with the liveness scan run first, on the tree as parsed
StagesScanFirst ==
    <<"collect_used_ids", "normalize_root", "remove_metadata_and_comments",
      "prune_unused_defs", "clean_elements", "strip_unused_ids", "cleanup_namespaces">>

\* the passes of clean_svg_tree, in the order it runs them
Stages ==
    <<"normalize_root", "remove_metadata_and_comments", "collect_used_ids",
      "prune_unused_defs", "clean_elements", "strip_unused_ids", "cleanup_namespaces">>

StageAfter(stage) ==
    LET i == CHOOSE k \in 1..Len(Stages) : Stages[k] = stage
    IN  IF i = Len(Stages) THEN "done" ELSE Stages[i + 1]

(***************************************************************************)
(* Inputs.                                                                 *)
(***************************************************************************)
Svg(name) == "{" \o SVG_NS \o "}" \o name

Elem(tag, attrib) == [tag |-> tag, attrib |-> attrib, parent |-> 0]

\* root elements: an svg with no namespace, an svg that refers to the id "a",
\* and a root that is no svg.  The other elements: a defs, a defs with no
\* namespace, a gradient with the id "a", a rect with editor attributes that
\* refers to its own id "c" from an attribute the cleaning strips, a nested
\* svg with the id "c", and a metadata element that refers to "a".
RootElems ==
    { Elem("svg", << <<"id", "b">> >>),
      Elem(Svg("svg"), << <<"id", "b">>, <<"fill", "url(#a)">>,
                          <<"viewBox", "0 0 16.0 16">> >>),
      Elem(Svg("g"), << <<"id", "b">> >>) }

NodeElems ==
    { Elem(Svg("defs"), <<>>),
      Elem("defs", <<>>),
      Elem(Svg("linearGradient"), << <<"id", "a">> >>),
      Elem(Svg("rect"), << <<"id", "c">>,
                           <<"{" \o XML_NS \o "}space", "preserve">>,
                           <<"{" \o INKSCAPE_NS \o "}label", "r">>,
                           <<"data-ref", "#c">>,
                           <<"x", "-0.5">>,
                           <<"style", "opacity:1;stroke:none;stroke-width:2.5">> >>),
      Elem(Svg("svg"), << <<"id", "c">> >>),
      Elem(Svg("metadata"), << <<"{" \o XLINK_NS \o "}href", "#a">> >>) }

RECURSIVE OnPathToRoot(_, _, _)
OnPathToRoot(par, a, n) ==
    n = a \/ (n # 0 /\ OnPathToRoot(par, a, par[n]))

\* the parent vectors of the trees of n nodes numbered in document order
ParentVectors(n) ==
    {par \in [1..n -> 0..n] :
        /\ par[1] = 0
        /\ \A i \in 2..n : par[i] \in 1..(i - 1) /\ OnPathToRoot(par, par[i], i - 1)}

\* the document with the given root, elements and shape
Document(root, els, par) ==
    [i \in 1..Len(par) |->
        [(IF i = 1 THEN root ELSE els[i]) EXCEPT !.parent = par[i]]]

\* no two elements of the document carry the same id
UniqueIds(t) ==
    \A i, j \in 1..Len(t) :
        (i < j /\ Has(t[i].attrib, "id") /\ Has(t[j].attrib, "id"))
        => Get(t[i].attrib, "id") # Get(t[j].attrib, "id")

StyleChunks ==
    {"stroke:none", "stroke: transparent", "stroke:red", "stroke-width:2",
     "stroke-opacity:1", "opacity:1", "opacity:1.0", "fill:url(#a)",
     "font-family:Sans", "-inkscape-stroke:none", "stroke-dasharray:none",
     "stroke-dashoffset:-0.25", "", "bogus"}

StyleStrings ==
    UNION {{Join(c, ";") : c \in [1..n -> StyleChunks]} : n \in 0..MaxProps}

StyledElems ==
    {Elem(tag, attrib) :
        tag \in {Svg("rect"), Svg("text")},
        attrib \in {<<>>} \cup {<< <<"style", st>> >> : st \in StyleStrings}}

RECURSIVE DigitStrings(_, _)
DigitStrings(chars, n) ==
    IF n = 0 THEN {""}
    ELSE LET shorter == DigitStrings(chars, n - 1)
         IN  shorter \cup {c \o x : c \in chars, x \in shorter}

\* numeric tokens: integers, decimals with up to MaxFracDigits fractional
\* digits (an integer part may be missing), and two with an exponent
Tokens ==
    LET signs == {"", "-", "+"}
        ints == {"0", "1", "96"}
        fracs == DigitStrings({"0", "5", "7"}, MaxFracDigits)
    IN  {sg \o ip : sg \in signs, ip \in ints}
        \cup {sg \o ip \o "." \o fp :
                 sg \in signs, ip \in ints \cup {""}, fp \in fracs \ {""}}
        \cup {sg \o ip \o "." : sg \in signs, ip \in ints}
        \cup {"-5e-3", "1.5E1"}

(***************************************************************************)
(* The pipeline of clean_svg_tree, one action per pass.                    *)
(***************************************************************************)
\* The settings are the defaults of the command line, no --aggressive and
\* --precision 2; SpecStyle and SpecRound take the other settings.
Init ==
    /\ pc = Stages[1]
    /\ run = 1
    /\ \E n \in 1..MaxNodes : \E par \in ParentVectors(n) :
          \E root \in RootElems : \E els \in [2..n -> NodeElems] :
              /\ UniqueIds(Document(root, els, par))
              /\ tree0 = Document(root, els, par)
    /\ tree = tree0
    /\ scanned = <<>>
    /\ used = {}
    /\ aggressive = FALSE
    /\ precision = DefaultPrecision
    /\ text = ""
    /\ out = ""

NormalizeRoot ==
    /\ pc = "normalize_root"
    /\ tree' = normalize_root(tree)
    /\ pc' = StageAfter(pc)
    /\ UNCHANGED <<run, tree0, scanned, used, aggressive, precision, text, out>>

RemoveMetadataAndComments ==
    /\ pc = "remove_metadata_and_comments"
    /\ tree' = remove_metadata_and_comments(tree)
    /\ pc' = StageAfter(pc)
    /\ UNCHANGED <<run, tree0, scanned, used, aggressive, precision, text, out>>

CollectUsedIds ==
    /\ pc = "collect_used_ids"
    /\ used' = collect_used_ids(tree)
    /\ scanned' = tree
    /\ pc' = StageAfter(pc)
    /\ UNCHANGED <<run, tree0, tree, aggressive, precision, text, out>>

PruneUnusedDefs ==
    /\ pc = "prune_unused_defs"
    /\ tree' = prune_unused_defs(tree, used)
    /\ pc' = StageAfter(pc)
    /\ UNCHANGED <<run, tree0, scanned, used, aggressive, precision, text, out>>

CleanElements ==
    /\ pc = "clean_elements"
    /\ tree' = clean_elements(tree, aggressive, precision)
    /\ pc' = StageAfter(pc)
    /\ UNCHANGED <<run, tree0, scanned, used, aggressive, precision, text, out>>

StripUnusedIds ==
    /\ pc = "strip_unused_ids"
    /\ tree' = strip_unused_ids(tree, used)
    /\ pc' = StageAfter(pc)
    /\ UNCHANGED <<run, tree0, scanned, used, aggressive, precision, text, out>>

\* the final cleanup_namespaces only recomputes namespace declarations
CleanupNamespaces ==
    /\ pc = "cleanup_namespaces"
    /\ pc' = StageAfter(pc)
    /\ UNCHANGED <<run, tree0, scanned, tree, used, aggressive, precision, text, out>>

Next ==
    \/ NormalizeRoot
    \/ RemoveMetadataAndComments
    \/ CollectUsedIds
    \/ PruneUnusedDefs
    \/ CleanElements
    \/ StripUnusedIds
    \/ CleanupNamespaces

Spec == Init /\ [][Next]_vars

\* the cleaned document is given to clean_svg_tree once more, same settings
Rerun ==
    /\ pc = "done"
    /\ run = 1
    /\ run' = 2
    /\ tree0' = tree
    /\ scanned' = <<>>
    /\ used' = {}
    /\ pc' = Stages[1]
    /\ UNCHANGED <<tree, aggressive, precision, text, out>>

NextTwice == Next \/ Rerun

SpecTwice == Init /\ [][NextTwice]_vars

(***************************************************************************)
(* clean_style on one element.                                             *)
(***************************************************************************)
InitStyle ==
    /\ pc = "clean_style"
    /\ run = 1
    /\ \E e \in StyledElems : tree0 = <<e>>
    /\ tree = tree0
    /\ scanned = <<>>
    /\ used = {}
    /\ aggressive \in BOOLEAN
    /\ precision \in 0..MaxPrecision
    /\ text = ""
    /\ out = ""

CleanStyle ==
    /\ pc = "clean_style"
    /\ tree' = <<clean_style(tree[1], aggressive, precision)>>
    /\ pc' = "done"
    /\ UNCHANGED <<run, tree0, scanned, used, aggressive, precision, text, out>>

NextStyle == CleanStyle

SpecStyle == InitStyle /\ [][NextStyle]_vars

(***************************************************************************)
(* round_numbers_in_string on one numeric token.                           *)
(***************************************************************************)
InitRound ==
    /\ pc = "round_numbers_in_string"
    /\ run = 1
    /\ tree0 = <<>>
    /\ tree = <<>>
    /\ scanned = <<>>
    /\ used = {}
    /\ aggressive = FALSE
    /\ precision \in 0..MaxPrecision
    /\ text \in Tokens
    /\ out = ""

RoundNumbers ==
    /\ pc = "round_numbers_in_string"
    /\ out' = round_numbers_in_string(text, precision)
    /\ pc' = "done"
    /\ UNCHANGED <<run, tree0, scanned, tree, used, aggressive, precision, text>>

NextRound == RoundNumbers

SpecRound == InitRound /\ [][NextRound]_vars

(***************************************************************************)
(* Properties.                                                             *)
(***************************************************************************)
Done == pc = "done"

\* the pruning pass has run
Pruned == pc \in {"clean_elements", "strip_unused_ids", "cleanup_namespaces", "done"}

IdOf(elem) == Get(elem.attrib, "id")

HasLiveId(elem) == Truthy(elem.attrib, "id") /\ IdOf(elem) \in used

StyleOf(elem) ==
    IF Has(elem.attrib, "style") THEN parse_style(Get(elem.attrib, "style")) ELSE <<>>

\* C1: running clean_svg_tree on its own output, same settings, changes
\* nothing: the second run leaves the tree as it received it.
C1_SecondRunChangesNothing == (run = 2 /\ Done) => tree = tree0

\* C2: after prune_unused_defs, each child that a defs element (anywhere in
\* the tree, whatever its namespace) had before the pass is still its child if
\* and only if it has an id and that id is in the liveness set.
C2_DefsChildKeptIffLive ==
    Pruned =>
        \A d \in Iter(scanned) : localname(scanned[d].tag) = "defs" =>
            \A c \in Children(scanned, d) :
                (tree[c].parent = d) <=> HasLiveId(scanned[c])

\* C2 for the defs elements that prune_unused_defs finds, those in the SVG
\* namespace below the root: each child is kept if and only if its id is live.
C2_SvgDefsChildKeptIffLive ==
    Pruned =>
        \A d \in Iter(scanned) \ {1} : scanned[d].tag = Svg("defs") =>
            \A c \in Children(scanned, d) :
                (tree[c].parent = d) <=> HasLiveId(scanned[c])

PrunedAsChild(d) ==
    LET p == scanned[d].parent
    IN  p \in Iter(scanned) \ {1} /\ scanned[p].tag = Svg("defs") /\ ~HasLiveId(scanned[d])

C4_OnlyRootExempt ==
    Done =>
        /\ Has(scanned[1].attrib, "id") => Has(tree[1].attrib, "id")
        /\ \A n \in Iter(tree) \ {1} :
               Has(tree[n].attrib, "id") => IdOf(tree[n]) \in used

\* C4 as amended: the exemption goes by the tag, not by being the root.  An
\* element whose local name is not svg and whose id is non-empty and not in the
\* liveness set has no id after the pass; every other element, so every
\* element named svg, the root or a nested one, keeps the id it had.
C4_SvgExempt ==
    Done =>
        \A n \in Iter(tree) :
            IF /\ Truthy(scanned[n].attrib, "id")
               /\ IdOf(scanned[n]) \notin used
               /\ localname(scanned[n].tag) # "svg"
            THEN ~Has(tree[n].attrib, "id")
            ELSE /\ Has(tree[n].attrib, "id") <=> Has(scanned[n].attrib, "id")
                 /\ Has(tree[n].attrib, "id") => IdOf(tree[n]) = IdOf(scanned[n])

\* C4 witness: a nested svg kept an id that is not live, and some other
\* element lost one
C4_Witness ==
    /\ Done
    /\ \E n \in Iter(tree) \ {1} :
           /\ localname(tree[n].tag) = "svg"
           /\ Has(tree[n].attrib, "id")
           /\ IdOf(tree[n]) \notin used
    /\ \E n \in Iter(tree) :
           Has(scanned[n].attrib, "id") /\ ~Has(tree[n].attrib, "id")

\* C5: the rounded form of a float-like token starts with "-" if and only if
\* the token is negative and the rounded value is not zero (some digit of the
\* output is not 0).
C5_MinusIffNegativeNonZero ==
    (Done /\ is_floatlike(text)) =>
        (StartsWith(out, "-")
            <=> (/\ StartsWith(text, "-")
                 /\ \E i \in 1..Len(out) : CharAt(out, i) \in Digits \ {"0"}))

\* C6: after the pipeline no element carries an attribute in the Inkscape or
\* Sodipodi namespace, an attribute whose local name starts with data-, or
\* xml:space (the attribute space in the XML namespace).
C6_NoEditorAttributes ==
    Done =>
        \A n \in Iter(tree) : \A i \in 1..Len(tree[n].attrib) :
            LET name == tree[n].attrib[i][1]
            IN  /\ ~StartsWith(name, "{" \o INKSCAPE_NS \o "}")
                /\ ~StartsWith(name, "{" \o SODIPODI_NS \o "}")
                /\ ~StartsWith(localname(name), "data-")
                /\ name # "{" \o XML_NS \o "}space"

\* C7: after clean_style, if stroke was present with the trimmed value none or
\* transparent, or absent with aggressive mode on, no property whose name
\* starts with stroke- remains; stroke itself is removed exactly when
\* aggressive mode is on and its value is none, and is otherwise kept as it
\* was; so stroke:none;stroke-width:2 loses the style attribute with
\* aggressive and becomes stroke:none without.
C7_StrokeSuppression ==
    Done =>
        LET d0 == StyleOf(tree0[1])
            d1 == StyleOf(tree[1])
            sv == Strip(Get(d0, "stroke"))
        IN  /\ ((Has(d0, "stroke") /\ sv \in {"none", "transparent"})
                    \/ (~Has(d0, "stroke") /\ aggressive))
               => \A k \in Keys(d1) : ~StartsWith(k, "stroke-")
            /\ Has(d0, "stroke") =>
                   /\ Has(d1, "stroke") <=> ~(aggressive /\ sv = "none")
                   /\ Has(d1, "stroke") => Get(d1, "stroke") = Get(d0, "stroke")
            /\ (Has(tree0[1].attrib, "style")
                    /\ Get(tree0[1].attrib, "style") = "stroke:none;stroke-width:2")
               => IF aggressive
                  THEN ~Has(tree[1].attrib, "style")
                  ELSE Get(tree[1].attrib, "style") = "stroke:none"

\* C7 witness: stroke-width was dropped next to stroke:none, stroke kept
C7_Witness ==
    /\ Done
    /\ ~aggressive
    /\ Has(StyleOf(tree0[1]), "stroke-width")
    /\ Has(StyleOf(tree0[1]), "stroke")
    /\ Get(StyleOf(tree0[1]), "stroke") = "none"
    /\ Keys(StyleOf(tree[1])) = {"stroke"}

\* C8: after clean_style on an element that had a style attribute, at any
\* precision, the style holds no property of the defaults table with its
\* default value, and a style attribute that remains has at least one
\* property.
C8_NoDefaultLeft ==
    (Done /\ Has(tree0[1].attrib, "style")) =>
        /\ Has(tree[1].attrib, "style") => Len(StyleOf(tree[1])) > 0
        /\ \A i \in 1..Len(StyleOf(tree[1])) : \A j \in 1..Len(CSS_DEFAULTS) :
               StyleOf(tree[1])[i] # CSS_DEFAULTS[j]

\* C9: the liveness set is computed once, from the tree as it is after
\* namespace normalization and metadata removal and before any later pass,
\* and stays the set the later passes use: used changes in no step but the
\* scan; the scan reads the normalized input without its root-level metadata
\* children and before pruning or cleaning has touched it; and the ids that
\* survive id stripping on elements not named svg are in that set.
C9_LivenessComputedOnce ==
    [][/\ used' # used => pc = "collect_used_ids"
       /\ pc = "collect_used_ids" =>
              /\ tree = remove_metadata_and_comments(normalize_root(tree0))
              /\ used' = collect_used_ids(tree)
       /\ pc' = "done" =>
              \A n \in Iter(tree') :
                  (Has(tree'[n].attrib, "id") /\ localname(tree'[n].tag) # "svg")
                  => IdOf(tree'[n]) \in used' \cup {""}]_vars

\* C9 witness: an id referred to only from a root-level metadata child is not
\* live, and an id referred to only from an attribute that the cleaning
\* removed is live
C9_Witness ==
    /\ Done
    /\ collect_used_ids(tree0) \ used # {}
    /\ used \ collect_used_ids(tree) # {}

\* C10: if an element of the output refers to an id X that some element of the
\* input carried (an element outside the root-level metadata children), some
\* element of the output still carries the id X.
C10_NoDanglingReference ==
    Done =>
        \A n \in Iter(tree) : \A x \in ElementRefs(tree[n]) :
            (\E m \in Iter(scanned) : Has(scanned[m].attrib, "id") /\ IdOf(scanned[m]) = x)
            => \E m \in Iter(tree) : Has(tree[m].attrib, "id") /\ IdOf(tree[m]) = x

====
